---- MODULE Spec2Model ----
(***************************************************************************)
(* The chat relay of backend/main.py: POST /api/chat validates a           *)
(* ChatRequest, builds the system prompt (get_system_prompt), calls the    *)
(* upstream completion API once and maps the outcome to an HTTP response.  *)
(*                                                                         *)
(* Line 114 of main.py lacks the comma between the keyword arguments       *)
(* fund_name= and product_data=.  The call is modelled as the argument     *)
(* list it spells out (client_id, isin, fund_name, product_data); nothing  *)
(* else in the model depends on that line.                                 *)
(*                                                                         *)
(* Text is modelled by TLA+ strings.  A prompt is the sequence of the      *)
(* chunks the code concatenates: the fragments of the base f-string cut at *)
(* its two interpolations, then one chunk per += of a header or a line.    *)
(* Umlauts of the source texts are written ae, ue.                         *)
(***************************************************************************)
EXTENDS Integers, Sequences, FiniteSets, TLC

\* ------------------------------------------------------------ bounds
\* Longest caller message list, largest product_data mapping, and the number
\* of requests in flight in the concurrent specification.
MaxMsgs == 2
MaxData == 2
NumReq == 2

\* ------------------------------------------------------------ Python values
PyNone == [t |-> "None"]
PyStr(s) == [t |-> "str", s |-> s]
PyInt(n) == [t |-> "int", n |-> n]
PyBool(b) == [t |-> "bool", b |-> b]
PyDict(items) == [t |-> "dict", items |-> items]

\* bool(v): what `if v`, `not v` and `a or b` test.
Truthy(v) ==
    CASE v.t = "None" -> FALSE
      [] v.t = "str"  -> v.s # ""
      [] v.t = "int"  -> v.n # 0
      [] v.t = "bool" -> v.b
      [] v.t = "dict" -> Len(v.items) > 0

Digit(d) ==
    CASE d = 0 -> "0" [] d = 1 -> "1" [] d = 2 -> "2" [] d = 3 -> "3"
      [] d = 4 -> "4" [] d = 5 -> "5" [] d = 6 -> "6" [] d = 7 -> "7"
      [] d = 8 -> "8" [] d = 9 -> "9"

RECURSIVE IntStr(_)
IntStr(n) ==
    IF n < 0 THEN "-" \o IntStr(-n)
    ELSE IF n < 10 THEN Digit(n)
    ELSE IntStr(n \div 10) \o Digit(n % 10)

\* f"{v}": format(v, ""), which is str(v) for these types.
Format(v) ==
    CASE v.t = "None" -> "None"
      [] v.t = "str"  -> v.s
      [] v.t = "int"  -> IntStr(v.n)
      [] v.t = "bool" -> IF v.b THEN "True" ELSE "False"

RECURSIVE Join(_)
Join(chunks) ==
    IF chunks = <<>> THEN "" ELSE Head(chunks) \o Join(Tail(chunks))

\* ------------------------------------------------------------ client table
ClientConfigTable ==
    [k \in {"comdirect", "consorsbank", "default"} |->
        CASE k = "comdirect" ->
               [name |-> "comdirect",
                disclaimer |-> "Dies ist keine Anlageberatung von comdirect."]
          [] k = "consorsbank" ->
               [name |-> "Consorsbank",
                disclaimer |-> "Dies ist keine Anlageberatung von Consorsbank."]
          [] k = "default" ->
               [name |-> "Finanzportal",
                disclaimer |-> "Dies ist keine Anlageberatung."]]

\* A lookup that falls back to the table's first entry, not to `default`.
DictGetWrongFallback(configs, key, default) ==
    IF key \in DOMAIN configs THEN configs[key] ELSE configs["comdirect"]

\* dict.get(key, default)
DictGet(configs, key, default) ==
    IF key \in DOMAIN configs THEN configs[key] ELSE default

\* ------------------------------------------------------------ the prompt
TemplateHead == "Du bist ein hilfreicher Assistent fuer Finanzprodukte bei "
\* Lines 52-81 between the two interpolations (the fixed rules, abbreviated).
TemplateRules ==
    ".\n\nSTRIKTE REGELN - NIEMALS BRECHEN: ... WAS DU DARFST: ... PRODUKTSPEZIFISCHE FRAGEN: ... ANTWORTSTIL: ...\n\nDISCLAIMER:\nBeende komplexe Antworten mit: \""
TemplateTail == "\"\n"
ContextHeader == "\n\nKONTEXT: Der Nutzer betrachtet gerade das Produkt:\n"
DataHeader == "\n\nAKTUELLE PRODUKTDATEN (verwende diese fuer praezise Antworten):\n"

NameLine(v) == "- Name: " \o Format(v) \o "\n"
IsinLine(v) == "- ISIN: " \o Format(v) \o "\n"
DataLine(item) == "- " \o item.key \o ": " \o Format(item.value) \o "\n"

base_prompt(configs, client_id) ==
    LET client_config == DictGet(configs, client_id, configs["default"])
    IN  << TemplateHead, client_config.name, TemplateRules,
           client_config.disclaimer, TemplateTail >>

\* A context block whose Name line is not guarded by `if fund_name`.
context_always_name(isin, fund_name) ==
    IF Truthy(isin) \/ Truthy(fund_name)
    THEN <<ContextHeader>>
         \o <<NameLine(fund_name)>>
         \o (IF Truthy(isin) THEN <<IsinLine(isin)>> ELSE <<>>)
    ELSE <<>>

\* Lines 85-91.
context(isin, fund_name) ==
    IF Truthy(isin) \/ Truthy(fund_name)
    THEN <<ContextHeader>>
         \o (IF Truthy(fund_name) THEN <<NameLine(fund_name)>> ELSE <<>>)
         \o (IF Truthy(isin) THEN <<IsinLine(isin)>> ELSE <<>>)
    ELSE <<>>

\* A product-data block that skips the first item.
data_context_dropfirst(product_data) ==
    IF Truthy(product_data)
    THEN <<DataHeader>>
         \o [i \in 1..(Len(product_data.items) - 1) |->
                DataLine(product_data.items[i + 1])]
    ELSE <<>>

\* Lines 94-98.
data_context(product_data) ==
    IF Truthy(product_data)
    THEN <<DataHeader>>
         \o [i \in 1..Len(product_data.items) |-> DataLine(product_data.items[i])]
    ELSE <<>>

get_system_prompt(configs, client_id, isin, fund_name, product_data) ==
    base_prompt(configs, client_id)
        \o context(isin, fund_name)
        \o data_context(product_data)

\* ------------------------------------------------------------ exceptions
HTTPException(status_code, detail) ==
    [cls |-> "HTTPException", status_code |-> status_code, detail |-> detail]
Error(cls, msg) == [cls |-> cls, msg |-> msg]

\* str(e).  HTTPException is built with keyword arguments only, so its args
\* are empty: str(e) is "" where the installed class has no __str__ of its
\* own (has_str = FALSE) and "<status_code>: <detail>" where it has one.
ExcStr(e, has_str) ==
    IF e.cls = "HTTPException"
    THEN IF has_str THEN IntStr(e.status_code) \o ": " \o e.detail ELSE ""
    ELSE e.msg

\* ------------------------------------------------------------ inputs
SeqsUpTo(S, n) == UNION {[1..k -> S] : k \in 0..n}

ClientIds == {"", "comdirect", "consorsbank", "default", "unknownbank"}

Msgs ==
    {[role |-> "user", content |-> "Was ist eine TER?"],
     [role |-> "assistant", content |-> "Die TER ist die Gesamtkostenquote."]}

OptIsin == {PyNone, PyStr(""), PyStr("IE00B4L5Y983")}
OptName == {PyNone, PyStr(""), PyStr("MSCI World ETF")}

Items ==
    {[key |-> "TER", value |-> PyStr("0.20%")],
     [key |-> "Fondsvolumen", value |-> PyInt(1200)],
     [key |-> "Ausschuettend", value |-> PyBool(TRUE)]}

\* A dict: its items in iteration order, keys distinct.
Dicts ==
    {PyDict(q) : q \in {s \in SeqsUpTo(Items, MaxData) :
        \A i, j \in 1..Len(s) : i # j => s[i].key # s[j].key}}

ChatRequests ==
    [messages : SeqsUpTo(Msgs, MaxMsgs), client_id : ClientIds,
     isin : OptIsin, fund_name : OptName, product_data : {PyNone} \cup Dicts]

\* The requests of the concurrent specification: the two validation
\* failures and two valid requests.
ConcRequests ==
    {[messages |-> <<>>, client_id |-> "comdirect", isin |-> PyNone,
      fund_name |-> PyNone, product_data |-> PyNone],
     [messages |-> <<[role |-> "user", content |-> "Was ist eine TER?"]>>,
      client_id |-> "", isin |-> PyNone, fund_name |-> PyNone,
      product_data |-> PyNone],
     [messages |-> <<[role |-> "user", content |-> "Was ist eine TER?"]>>,
      client_id |-> "comdirect", isin |-> PyStr("IE00B4L5Y983"),
      fund_name |-> PyNone, product_data |-> PyNone],
     [messages |-> <<[role |-> "user", content |-> "Was ist eine TER?"]>>,
      client_id |-> "unknownbank", isin |-> PyNone,
      fund_name |-> PyStr("MSCI World ETF"),
      product_data |-> PyDict(<<[key |-> "TER", value |-> PyStr("0.20%")]>>)]}

\* What client.chat.completions.create can do: raise, or return a
\* completion whose choices carry message contents (str or None).
UpstreamErrors ==
    {Error("APIConnectionError", "Connection error."),
     Error("RateLimitError", "Error code: 429"),
     Error("Exception", "")}

ChoiceLists ==
    {<<>>,
     <<PyNone>>,
     <<PyStr("")>>,
     <<PyStr("Die TER ist die Gesamtkostenquote eines Fonds.")>>,
     <<PyStr("Die TER ist die Gesamtkostenquote eines Fonds."),
       PyStr("Zweite Antwort.")>>}

\* ------------------------------------------------------------ state
Slots == 1..NumReq

VARIABLES
    http_exception_str, \* whether the installed HTTPException defines __str__
    CLIENT_CONFIGS,   \* the module-level table (lines 34-47)
    client,           \* the module-level upstream handle (line 18)
    request,          \* request[r]: the ChatRequest slot r handles
    pc,               \* pc[r]: where chat() stands for slot r
    system_prompt,    \* system_prompt[r]: chunks of the built prompt
    messages,         \* messages[r]: the list built for the upstream call
    sent,             \* sent[r]: the upstream calls made, in order
    reply,            \* reply[r]: the completion the upstream returned
    exc,              \* exc[r]: the exception raised inside the try block
    response,         \* response[r]: the HTTP response delivered
    log               \* what the handlers printed, in order

vars == << http_exception_str, CLIENT_CONFIGS, client, request, pc, system_prompt, messages,
           sent, reply, exc, response, log >>

shared == << http_exception_str, CLIENT_CONFIGS, client >>

\* The state when the requests `reqs` have arrived at the slots `active`.
InitWith(reqs, active) ==
    /\ http_exception_str \in BOOLEAN
    /\ CLIENT_CONFIGS = ClientConfigTable
    /\ client = [api_key |-> "OPENAI_API_KEY"]
    /\ request = reqs
    /\ pc = [r \in Slots |-> IF r \in active THEN "validate" ELSE "idle"]
    /\ system_prompt = [r \in Slots |-> <<>>]
    /\ messages = [r \in Slots |-> <<>>]
    /\ sent = [r \in Slots |-> <<>>]
    /\ reply = [r \in Slots |-> PyNone]
    /\ exc = [r \in Slots |-> PyNone]
    /\ response = [r \in Slots |-> PyNone]
    /\ log = <<>>

\* One request, any ChatRequest.
Init == \E q \in ChatRequests : InitWith([r \in Slots |-> q], {1})

\* NumReq requests in flight at once.
InitConc == \E reqs \in [Slots -> ConcRequests] : InitWith(reqs, Slots)

\* ------------------------------------------------------------ chat()
\* `raise e` inside the try block: control passes to the except clause.
Raise(r, e) ==
    /\ exc' = [exc EXCEPT ![r] = e]
    /\ pc' = [pc EXCEPT ![r] = "except"]

\* Lines 105-109: the two validation checks.
Validate(r) ==
    /\ pc[r] = "validate"
    /\ IF ~Truthy(PyStr(request[r].client_id))
       THEN Raise(r, HTTPException(400, "client_id ist erforderlich"))
       ELSE IF Len(request[r].messages) = 0
       THEN Raise(r, HTTPException(400, "Mindestens eine Nachricht erforderlich"))
       ELSE /\ pc' = [pc EXCEPT ![r] = "build"]
            /\ UNCHANGED exc
    /\ UNCHANGED << shared, request, system_prompt, messages, sent, reply,
                    response, log >>

\* A message list with the caller's messages newest first.
upstream_messages_reversed(prompt, msgs) ==
    << [role |-> "system", content |-> Join(prompt)] >>
        \o [i \in 1..Len(msgs) |->
              [role |-> msgs[Len(msgs) + 1 - i].role,
               content |-> msgs[Len(msgs) + 1 - i].content]]

\* Lines 118-124: the system entry, then the caller's messages in order.
upstream_messages(prompt, msgs) ==
    << [role |-> "system", content |-> Join(prompt)] >>
        \o [i \in 1..Len(msgs) |->
              [role |-> msgs[i].role, content |-> msgs[i].content]]

\* A handler that records an unknown client_id in the shared table
\* (CLIENT_CONFIGS.setdefault in place of CLIENT_CONFIGS.get).
BuildRequestSetdefault(r) ==
    /\ pc[r] = "build"
    /\ CLIENT_CONFIGS' =
         IF request[r].client_id \in DOMAIN CLIENT_CONFIGS
         THEN CLIENT_CONFIGS
         ELSE [k \in DOMAIN CLIENT_CONFIGS \cup {request[r].client_id} |->
                 IF k \in DOMAIN CLIENT_CONFIGS THEN CLIENT_CONFIGS[k]
                 ELSE CLIENT_CONFIGS["default"]]
    /\ LET prompt == get_system_prompt(CLIENT_CONFIGS, request[r].client_id,
                        request[r].isin, request[r].fund_name,
                        request[r].product_data)
       IN  /\ system_prompt' = [system_prompt EXCEPT ![r] = prompt]
           /\ messages' = [messages EXCEPT ![r] =
                             upstream_messages(prompt, request[r].messages)]
    /\ pc' = [pc EXCEPT ![r] = "call"]
    /\ UNCHANGED << http_exception_str, client, request, sent, reply, exc, response, log >>

\* Lines 111-124: build the prompt and the upstream message list.
BuildRequest(r) ==
    /\ pc[r] = "build"
    /\ LET prompt == get_system_prompt(CLIENT_CONFIGS, request[r].client_id,
                        request[r].isin, request[r].fund_name,
                        request[r].product_data)
       IN  /\ system_prompt' = [system_prompt EXCEPT ![r] = prompt]
           /\ messages' = [messages EXCEPT ![r] =
                             upstream_messages(prompt, request[r].messages)]
    /\ pc' = [pc EXCEPT ![r] = "call"]
    /\ UNCHANGED << shared, request, sent, reply, exc, response, log >>

\* Lines 126-134: the call goes out through the shared handle.
CallUpstream(r) ==
    /\ pc[r] = "call"
    /\ sent' = [sent EXCEPT ![r] =
                  Append(@, [api_key |-> client.api_key,
                             model |-> "gpt-3.5-turbo",
                             messages |-> messages[r],
                             max_tokens |-> 500])]
    /\ pc' = [pc EXCEPT ![r] = "await"]
    /\ UNCHANGED << shared, request, system_prompt, messages, reply, exc,
                    response, log >>

\* The call returns a completion.
UpstreamReturns(r) ==
    /\ pc[r] = "await"
    /\ \E choices \in ChoiceLists :
         reply' = [reply EXCEPT ![r] = [choices |-> choices]]
    /\ pc' = [pc EXCEPT ![r] = "map"]
    /\ UNCHANGED << shared, request, system_prompt, messages, sent, exc,
                    response, log >>

\* The call raises.
UpstreamRaises(r) ==
    /\ pc[r] = "await"
    /\ \E e \in UpstreamErrors : Raise(r, e)
    /\ UNCHANGED << shared, request, system_prompt, messages, sent, reply,
                    response, log >>

\* The last choice in place of the first.
last_choice(completion) == completion.choices[Len(completion.choices)]

\* Line 136: response.choices[0].message.content
first_choice(completion) == completion.choices[1]

\* Lines 136-138: take the first choice and wrap it in a ChatResponse,
\* whose response field must be a str.
MapResponse(r) ==
    /\ pc[r] = "map"
    /\ IF Len(reply[r].choices) = 0
       THEN /\ Raise(r, Error("IndexError", "list index out of range"))
            /\ UNCHANGED response
       ELSE LET assistant_message == first_choice(reply[r])
            IN  IF assistant_message.t # "str"
                THEN /\ Raise(r, Error("ValidationError",
                                 "1 validation error for ChatResponse"))
                     /\ UNCHANGED response
                ELSE /\ response' = [response EXCEPT ![r] =
                           [status |-> 200, response |-> assistant_message.s]]
                     /\ pc' = [pc EXCEPT ![r] = "done"]
                     /\ UNCHANGED exc
    /\ UNCHANGED << shared, request, system_prompt, messages, sent, reply, log >>

\* A detail that leaves the error text out.
error_detail_generic(text) == "Ein Fehler ist aufgetreten"

\* Line 142: the detail of the 500.
error_detail(text) == "Ein Fehler ist aufgetreten: " \o text

\* A handler that tries the upstream call a second time after it raised.
HandleExceptionRetry(r) ==
    /\ pc[r] = "except"
    /\ IF exc[r] \in UpstreamErrors /\ Len(sent[r]) < 2
       THEN /\ pc' = [pc EXCEPT ![r] = "call"]
            /\ UNCHANGED << response, log >>
       ELSE /\ LET text == ExcStr(exc[r], http_exception_str)
               IN  /\ log' = Append(log, "Error in chat endpoint: " \o text)
                   /\ response' = [response EXCEPT ![r] =
                         [status |-> 500, detail |-> error_detail(text)]]
            /\ pc' = [pc EXCEPT ![r] = "done"]
    /\ UNCHANGED << shared, request, system_prompt, messages, sent, reply, exc >>

\* Lines 140-142: except Exception catches whatever the try block raised,
\* the HTTPException of the validation included, prints it and raises a
\* 500, which is what the framework delivers.
HandleException(r) ==
    /\ pc[r] = "except"
    /\ LET text == ExcStr(exc[r], http_exception_str)
       IN  /\ log' = Append(log, "Error in chat endpoint: " \o text)
           /\ response' = [response EXCEPT ![r] =
                 [status |-> 500, detail |-> error_detail(text)]]
    /\ pc' = [pc EXCEPT ![r] = "done"]
    /\ UNCHANGED << shared, request, system_prompt, messages, sent, reply, exc >>

Next ==
    \E r \in Slots :
        \/ Validate(r)
        \/ BuildRequest(r)
        \/ CallUpstream(r)
        \/ UpstreamReturns(r)
        \/ UpstreamRaises(r)
        \/ MapResponse(r)
        \/ HandleException(r)

Spec == Init /\ [][Next]_vars

SpecConc == InitConc /\ [][Next]_vars

\* ------------------------------------------------------------ properties
Done(r) == pc[r] = "done"
Valid(q) == q.client_id # "" /\ Len(q.messages) > 0
Built(r) == system_prompt[r] # <<>>

\* A chunk of the prompt equal to `text`.
Has(prompt, text) == \E i \in 1..Len(prompt) : prompt[i] = text

\* `text` occurs in `detail`, between one of the affixes the endpoint uses.
Affixes == {"", "Ein Fehler ist aufgetreten: ", "Ein Fehler ist aufgetreten"}
Contains(detail, text) ==
    \E before \in Affixes, after \in Affixes : detail = before \o text \o after

\* The texts a Name or ISIN line can carry.
FieldTexts == {Format(v) : v \in OptIsin \cup OptName}
HasNameLine(prompt) ==
    \E t \in FieldTexts : Has(prompt, "- Name: " \o t \o "\n")
HasIsinLine(prompt) ==
    \E t \in FieldTexts : Has(prompt, "- ISIN: " \o t \o "\n")

\* C1: every request with an empty client_id is answered with status 400
\* and the detail "client_id ist erforderlich", never with a 500.
C1_EmptyClientIdIs400 ==
    \A r \in Slots :
        (Done(r) /\ request[r].client_id = "") =>
            /\ response[r].status = 400
            /\ response[r].detail = "client_id ist erforderlich"

\* C2: every request with a non-empty client_id and no messages is answered
\* with status 400 and the detail "Mindestens eine Nachricht erforderlich",
\* never with a 500.
C2_EmptyMessagesIs400 ==
    \A r \in Slots :
        (Done(r) /\ request[r].client_id # "" /\ Len(request[r].messages) = 0) =>
            /\ response[r].status = 400
            /\ response[r].detail = "Mindestens eine Nachricht erforderlich"

\* C3: when the upstream call of a valid request raises, the response is a
\* 500 whose detail is non-empty and contains the text of the raised error.
C3_UpstreamErrorIs500 ==
    \A r \in Slots :
        (Done(r) /\ Valid(request[r]) /\ exc[r] \in UpstreamErrors) =>
            /\ response[r].status = 500
            /\ response[r].detail # ""
            /\ Contains(response[r].detail, exc[r].msg)

C3_Witness ==
    \E r \in Slots :
        /\ Done(r) /\ Valid(request[r])
        /\ exc[r] = Error("APIConnectionError", "Connection error.")
        /\ response[r] = [status |-> 500,
             detail |-> "Ein Fehler ist aufgetreten: Connection error."]

\* C4: when the upstream call of a valid request returns a completion whose
\* first choice carries text, the response is a 200 whose response field is
\* exactly that text.
C4_SuccessReturnsFirstChoice ==
    \A r \in Slots :
        (Done(r) /\ Valid(request[r]) /\ reply[r] # PyNone
           /\ Len(reply[r].choices) > 0 /\ reply[r].choices[1].t = "str") =>
            /\ response[r].status = 200
            /\ response[r].response = reply[r].choices[1].s

C4_Witness ==
    \E r \in Slots :
        /\ Done(r) /\ Valid(request[r])
        /\ reply[r] # PyNone /\ Len(reply[r].choices) = 2
        /\ response[r] = [status |-> 200,
             response |-> "Die TER ist die Gesamtkostenquote eines Fonds."]

\* C5: the message list of every upstream call has one entry more than the
\* caller's list: the system entry with the assembled prompt, then the
\* caller's messages, each with its role and content, in the caller's order.
C5_UpstreamMessageList ==
    \A r \in Slots : \A k \in 1..Len(sent[r]) :
        LET m == sent[r][k].messages
            n == Len(request[r].messages)
        IN  /\ Len(m) = n + 1
            /\ m[1].role = "system"
            /\ m[1].content = Join(system_prompt[r])
            /\ \A i \in 1..n :
                 /\ m[i + 1].role = request[r].messages[i].role
                 /\ m[i + 1].content = request[r].messages[i].content

C5_Witness ==
    \E r \in Slots :
        /\ Len(sent[r]) = 1
        /\ Len(request[r].messages) = 2
        /\ request[r].messages[1] # request[r].messages[2]
        /\ Len(sent[r][1].messages) = 3

\* What C6 asks of the prompt built for client_id.
C6_Resolved(prompt, client_id) ==
    /\ client_id \in {"comdirect", "consorsbank", "default"} =>
         /\ Has(prompt, ClientConfigTable[client_id].name)
         /\ Has(prompt, ClientConfigTable[client_id].disclaimer)
    /\ client_id = "comdirect" =>
         /\ Has(prompt, "comdirect")
         /\ Has(prompt, "Dies ist keine Anlageberatung von comdirect.")
    /\ client_id \notin {"comdirect", "consorsbank", "default"} =>
         /\ Has(prompt, "Finanzportal")
         /\ Has(prompt, "Dies ist keine Anlageberatung.")

\* C6: the prompt of a client_id that is a key of the table carries that
\* entry's name and disclaimer, and the prompt of any other client_id (the
\* empty one included) carries "Finanzportal" and the generic disclaimer.
C6_ClientResolution ==
    \A r \in Slots :
        /\ Built(r) => C6_Resolved(system_prompt[r], request[r].client_id)
        /\ \A id \in ClientIds :
             C6_Resolved(get_system_prompt(CLIENT_CONFIGS, id, request[r].isin,
                            request[r].fund_name, request[r].product_data), id)

C6_Witness ==
    \E r \in Slots :
        /\ Built(r)
        /\ request[r].client_id = "unknownbank"
        /\ Has(system_prompt[r], "Finanzportal")
        /\ Has(system_prompt[r], "Dies ist keine Anlageberatung.")

\* C7 as stated: the context block is in the prompt iff isin or fund_name is
\* present (given, not None), with a Name line iff fund_name is present and
\* an ISIN line iff isin is present.
C7_ContextIffPresent ==
    \A r \in Slots :
        Built(r) =>
            /\ Has(system_prompt[r], ContextHeader)
                 <=> (request[r].isin # PyNone \/ request[r].fund_name # PyNone)
            /\ HasNameLine(system_prompt[r]) <=> request[r].fund_name # PyNone
            /\ HasIsinLine(system_prompt[r]) <=> request[r].isin # PyNone

\* C7 amended: the context block is appended iff isin or fund_name is a
\* non-empty string, with a Name line iff fund_name is a non-empty string
\* and an ISIN line iff isin is a non-empty string.
C7_ContextIffNonEmpty ==
    \A r \in Slots :
        Built(r) =>
            LET p == system_prompt[r]
                isin == request[r].isin
                fund_name == request[r].fund_name
                has_isin == isin # PyNone /\ isin.s # ""
                has_name == fund_name # PyNone /\ fund_name.s # ""
            IN  /\ Has(p, ContextHeader) <=> (has_isin \/ has_name)
                /\ HasNameLine(p) <=> has_name
                /\ HasIsinLine(p) <=> has_isin
                /\ has_name => Has(p, "- Name: " \o fund_name.s \o "\n")
                /\ has_isin => Has(p, "- ISIN: " \o isin.s \o "\n")
                /\ (HasNameLine(p) \/ HasIsinLine(p)) => Has(p, ContextHeader)

C7_Witness ==
    \E r \in Slots :
        /\ Built(r)
        /\ request[r].fund_name = PyStr("MSCI World ETF")
        /\ request[r].isin = PyNone
        /\ Has(system_prompt[r], ContextHeader)
        /\ Has(system_prompt[r], "- Name: MSCI World ETF\n")
        /\ ~HasIsinLine(system_prompt[r])

C9_AtMostOneUpstreamCall ==
    \A r \in Slots :
        /\ Len(sent[r]) <= 1
        /\ ~Valid(request[r]) => Len(sent[r]) = 0
        /\ (Done(r) /\ Valid(request[r])) => Len(sent[r]) = 1
        /\ (Done(r) /\ exc[r] \in UpstreamErrors) =>
             /\ Len(sent[r]) = 1
             /\ response[r].status = 500

C9_Witness ==
    \E r \in Slots :
        /\ Done(r) /\ Valid(request[r])
        /\ exc[r] \in UpstreamErrors
        /\ Len(sent[r]) = 1
        /\ response[r].status = 500

\* C10: with several requests in flight, no step changes the shared table
\* or the upstream handle, a delivered response is never changed by a later
\* step, and two requests with the same fields and the same upstream
\* outcome get the same response whatever the others did.
C10_Isolation ==
    /\ [](\A r1, r2 \in Slots :
            (Done(r1) /\ Done(r2) /\ request[r1] = request[r2]
               /\ reply[r1] = reply[r2] /\ exc[r1] = exc[r2]) =>
                response[r1] = response[r2])
    /\ [][/\ CLIENT_CONFIGS' = CLIENT_CONFIGS
          /\ client' = client
          /\ \A r \in Slots :
               Done(r) => (pc'[r] = "done" /\ response'[r] = response[r])]_vars

C10_Witness ==
    \E r1, r2 \in Slots :
        /\ r1 # r2 /\ Done(r1) /\ Done(r2)
        /\ request[r1] = request[r2]
        /\ exc[r1] \in UpstreamErrors
        /\ response[r1].status = 500
        /\ response[r2].status = 200
        /\ CLIENT_CONFIGS = ClientConfigTable

====
